---- MODULE Spec2Model ----
(***************************************************************************)
(* Model of OcrDiffAlign: fuzzy alignment of OCR lines against a reference *)
(* text (src/align.py, src/align-pagexml.py, src/streamlit/app.py).        *)
(*                                                                         *)
(* A string is a sequence of characters; a character is its Unicode code   *)
(* point (a natural number).  A one-character Python string such as d[-1]  *)
(* is a sequence of length 1 and "" is the empty sequence << >>.           *)
(***************************************************************************)
EXTENDS Integers, Sequences, FiniteSets, TLC

(***************************************************************************)
(* Characters                                                              *)
(***************************************************************************)
\* first and last code point of the character class [\u0590-\u05FF]
HebrewLo == 1424
HebrewHi == 1535
\* the separator of " ".join(...)
SpaceChar == 32

\* what \s matches in a str pattern, and what str.strip()/str.split() treat
\* as whitespace (str.isspace)
WhitespaceChars ==
    {9, 10, 11, 12, 13, 28, 29, 30, 31, 32, 133, 160, 5760}
        \cup (8192..8202) \cup {8232, 8233, 8239, 8287, 12288}

IsSpace(c) == c \in WhitespaceChars

\* a character the regular expression [^\u0590-\u05FF\s] does not match
IsValidChar(c) == (HebrewLo <= c /\ c <= HebrewHi) \/ IsSpace(c)

(***************************************************************************)
(* Generic helpers on sequences                                            *)
(***************************************************************************)
Max(x, y) == IF x >= y THEN x ELSE y
Min(x, y) == IF x <= y THEN x ELSE y

RECURSIVE Gcd(_, _)
Gcd(x, y) == IF y = 0 THEN x ELSE Gcd(y, x % y)

\* s[lo:hi] of Python (0-based, half open, clipped to the string)
Slice(s, lo, hi) ==
    LET l == Max(lo, 0)
        h == Min(hi, Len(s))
    IN  IF h <= l THEN << >> ELSE SubSeq(s, l + 1, h)

\* all sequences over S of length 0..n
RECURSIVE SeqsUpTo(_, _)
SeqsUpTo(S, n) ==
    IF n = 0 THEN {<< >>}
    ELSE LET shorter == SeqsUpTo(S, n - 1)
         IN  shorter \cup {Append(s, c) : s \in {t \in shorter : Len(t) = n - 1}, c \in S}

RECURSIVE Concat(_)
Concat(ss) == IF ss = << >> THEN << >> ELSE Head(ss) \o Concat(Tail(ss))

(***************************************************************************)
(* normalize_hebrew                                                        *)
(***************************************************************************)
\* str.strip(): drop leading and trailing whitespace
Strip(s) ==
    LET keep == {i \in 1..Len(s) : ~IsSpace(s[i])}
    IN  IF keep = {} THEN << >>
        ELSE LET first == CHOOSE i \in keep : \A j \in keep : i <= j
                 last  == CHOOSE i \in keep : \A j \in keep : j <= i
             IN  SubSeq(s, first, last)

\* re.sub(r"[^\u0590-\u05FF\s]", "", text)
RemoveInvalid(text) == SelectSeq(text, IsValidChar)

\* the two steps in the other order: strip, then remove
normalize_strip_first(text) == RemoveInvalid(Strip(text))

normalize_hebrew(text) == Strip(RemoveInvalid(text))

(***************************************************************************)
(* build_windows                                                           *)
(***************************************************************************)
\* str.split(): the maximal runs of non-whitespace characters, in order
RECURSIVE SplitFrom(_, _, _, _)
SplitFrom(s, i, cur, acc) ==
    IF i > Len(s) THEN (IF cur = << >> THEN acc ELSE Append(acc, cur))
    ELSE IF IsSpace(s[i])
         THEN SplitFrom(s, i + 1, << >>, IF cur = << >> THEN acc ELSE Append(acc, cur))
         ELSE SplitFrom(s, i + 1, Append(cur, s[i]), acc)

Split(s) == SplitFrom(s, 1, << >>, << >>)

\* " ".join(words)
RECURSIVE JoinWords(_)
JoinWords(words) ==
    IF words = << >> THEN << >>
    ELSE IF Len(words) = 1 THEN words[1]
    ELSE words[1] \o <<SpaceChar>> \o JoinWords(Tail(words))

\* build_windows with range(len(words)-window_size): the last window is lost
build_windows_short(reference_text, window_size) ==
    LET words == Split(reference_text)
        count == Len(words) - window_size
    IN  IF count <= 0 THEN << >>
        ELSE [k \in 1..count |-> JoinWords(Slice(words, k - 1, k - 1 + window_size))]

\* [" ".join(words[i:i+window_size]) for i in range(len(words)-window_size+1)]
build_windows(reference_text, window_size) ==
    LET words == Split(reference_text)
        count == Len(words) - window_size + 1
    IN  IF count <= 0 THEN << >>
        ELSE [k \in 1..count |-> JoinWords(Slice(words, k - 1, k - 1 + window_size))]

(***************************************************************************)
(* rapidfuzz: fuzz.ratio and process.extractOne                            *)
(***************************************************************************)
\* one row of the longest-common-subsequence table: prev is row i-1 and the
\* result row i, both indexed 1..Len(b)+1 for columns 0..Len(b)
RECURSIVE LcsRow(_, _, _, _)
LcsRow(ch, b, prev, cur) ==
    LET j == Len(cur)
    IN  IF j > Len(b) THEN cur
        ELSE LcsRow(ch, b, prev,
                    Append(cur, IF ch = b[j] THEN prev[j] + 1
                                ELSE Max(prev[j + 1], cur[j])))

RECURSIVE LcsRows(_, _, _, _)
LcsRows(a, b, i, prev) ==
    IF i > Len(a) THEN prev[Len(b) + 1]
    ELSE LcsRows(a, b, i + 1, LcsRow(a[i], b, prev, <<0>>))

\* length of a longest common subsequence of a and b
LcsLen(a, b) == LcsRows(a, b, 1, [j \in 1..(Len(b) + 1) |-> 0])

\* a score is an exact fraction num/den in lowest terms, den > 0
Frac(n, d) == LET g == Gcd(n, d) IN [num |-> n \div g, den |-> d \div g]
FracLess(x, y) == x.num * y.den < y.num * x.den
FracAdd(x, y) == Frac(x.num * y.den + y.num * x.den, x.den * y.den)
FracOfInt(n) == [num |-> n, den |-> 1]

\* fuzz.ratio counting the common characters once instead of in both strings
FuzzRatioSingle(s1, s2) ==
    LET total == Len(s1) + Len(s2)
    IN  IF total = 0 THEN FracOfInt(100)
        ELSE Frac(100 * LcsLen(s1, s2), total)

\* fuzz.ratio(s1, s2): the normalized Indel similarity times 100, that is
\* 100 * (1 - (len1 + len2 - 2*lcs) / (len1 + len2)), and 100 for two
\* empty strings
FuzzRatio(s1, s2) ==
    LET total == Len(s1) + Len(s2)
    IN  IF total = 0 THEN FracOfInt(100)
        ELSE Frac(100 * 2 * LcsLen(s1, s2), total)

\* the absent result of extractOne (Python None)
NoneResult == [none |-> TRUE]

\* the scan of process.extractOne(query, choices, scorer=fuzz.ratio): a
\* choice replaces the result held only when its score is strictly greater
RECURSIVE ExtractScan(_, _, _, _)
ExtractScan(query, choices, k, result) ==
    IF k > Len(choices) THEN result
    ELSE LET score == FuzzRatio(query, choices[k])
             better == result = NoneResult \/ FracLess(result.score, score)
             next == IF better
                     THEN [none |-> FALSE, match |-> choices[k],
                           score |-> score, idx |-> k - 1]
                     ELSE result
         IN  IF score = FracOfInt(100) THEN next
             ELSE ExtractScan(query, choices, k + 1, next)

\* extractOne keeping the last of the choices that share the greatest score
RECURSIVE ExtractScanLast(_, _, _, _)
ExtractScanLast(query, choices, k, result) ==
    IF k > Len(choices) THEN result
    ELSE LET score == FuzzRatio(query, choices[k])
             better == result = NoneResult \/ ~FracLess(score, result.score)
         IN  ExtractScanLast(query, choices, k + 1,
                             IF better
                             THEN [none |-> FALSE, match |-> choices[k],
                                   score |-> score, idx |-> k - 1]
                             ELSE result)

extractOneLast(query, choices) == ExtractScanLast(query, choices, 1, NoneResult)

extractOne(query, choices) == ExtractScan(query, choices, 1, NoneResult)

\* str.find(sub): the least 0-based offset at which sub occurs, or -1
Find(s, sub) ==
    LET occ == {i \in 0..(Len(s) - Len(sub)) : Slice(s, i, i + Len(sub)) = sub}
    IN  IF Len(sub) > Len(s) \/ occ = {} THEN -1
        ELSE CHOOSE i \in occ : \A j \in occ : i <= j

\* list(dict.fromkeys(candidates)): keep the first occurrence of each string
RECURSIVE DedupFrom(_, _, _)
DedupFrom(items, k, acc) ==
    IF k > Len(items) THEN acc
    ELSE DedupFrom(items, k + 1,
                   IF \E m \in 1..Len(acc) : acc[m] = items[k] THEN acc
                   ELSE Append(acc, items[k]))

Dedup(items) == DedupFrom(items, 1, << >>)

\* WindowSizes without the size above the line's token count
WindowSizesNoLarger(base_size) ==
    SelectSeq(<<base_size - 1, base_size>>, LAMBDA s : s > 0)

\* [s for s in (base_size-1, base_size, base_size+1) if s > 0]
WindowSizes(base_size) ==
    SelectSeq(<<base_size - 1, base_size, base_size + 1>>, LAMBDA s : s > 0)

\* candidates of one line: the windows of every size, then deduplicated
RECURSIVE ExtendAll(_, _, _)
ExtendAll(ref_norm, sizes, k) ==
    IF k > Len(sizes) THEN << >>
    ELSE build_windows(ref_norm, sizes[k]) \o ExtendAll(ref_norm, sizes, k + 1)

Candidates(ref_norm, norm_line) ==
    Dedup(ExtendAll(ref_norm, WindowSizes(Len(Split(norm_line))), 1))

(***************************************************************************)
(* difflib.ndiff on two strings (sequences of one-character items)         *)
(***************************************************************************)
\* length of the common run of a and b that ends at a[i], b[j] (1-based)
RECURSIVE RunEndingAt(_, _, _, _, _, _)
RunEndingAt(a, alo, i, b, blo, j) ==
    IF i <= alo \/ j <= blo \/ a[i] # b[j] THEN 0
    ELSE 1 + RunEndingAt(a, alo, i - 1, b, blo, j - 1)

\* SequenceMatcher.find_longest_match(alo, ahi, blo, bhi), 0-based half-open
\* ranges: the longest block a[i:i+k] = b[j:j+k]; of those the one starting
\* earliest in a, and of those the one starting earliest in b; (alo, blo, 0)
\* when no item matches
find_longest_match(a, alo, ahi, b, blo, bhi) ==
    LET blocks == {<<i - k, j - k, k>> :
                     <<i, j, k>> \in {<<i, j, RunEndingAt(a, alo, i, b, blo, j)>> :
                                         i \in (alo + 1)..ahi, j \in (blo + 1)..bhi}}
        found == {m \in blocks : m[3] > 0}
    IN  IF found = {} THEN <<alo, blo, 0>>
        ELSE CHOOSE m \in found :
                \A o \in found :
                    \/ m[3] > o[3]
                    \/ m[3] = o[3] /\ m[1] < o[1]
                    \/ m[3] = o[3] /\ m[1] = o[1] /\ m[2] <= o[2]

\* Differ._dump(tag, x, lo, hi): one line  tag + " " + x[i]  per item
Dump(tag, x, lo, hi) == [k \in 1..(hi - lo) |-> [tag |-> tag, ch |-> <<x[lo + k]>>]]

\* the lines of a stretch with no matching item.  Both sides non-empty is a
\* 'replace' opcode: no pair of distinct one-character items is similar, so
\* Differ._fancy_replace falls back to Differ._plain_replace, which dumps
\* the shorter side first.
PlainGap(a, alo, ahi, b, blo, bhi) ==
    IF alo < ahi /\ blo < bhi
    THEN IF bhi - blo < ahi - alo
         THEN Dump("+", b, blo, bhi) \o Dump("-", a, alo, ahi)
         ELSE Dump("-", a, alo, ahi) \o Dump("+", b, blo, bhi)
    ELSE IF alo < ahi THEN Dump("-", a, alo, ahi)
    ELSE IF blo < bhi THEN Dump("+", b, blo, bhi)
    ELSE << >>

\* get_matching_blocks + get_opcodes + Differ.compare: the longest match
\* splits the range; left of it, the match (as equal lines), right of it
RECURSIVE NdiffRange(_, _, _, _, _, _)
NdiffRange(a, alo, ahi, b, blo, bhi) ==
    LET m == find_longest_match(a, alo, ahi, b, blo, bhi)
    IN  IF m[3] = 0 THEN PlainGap(a, alo, ahi, b, blo, bhi)
        ELSE NdiffRange(a, alo, m[1], b, blo, m[2])
             \o Dump(" ", a, m[1], m[1] + m[3])
             \o NdiffRange(a, m[1] + m[3], ahi, b, m[2] + m[3], bhi)

\* list(difflib.ndiff(ocr, ref))
Ndiff(ocr, ref) == NdiffRange(ocr, 0, Len(ocr), ref, 0, Len(ref))

(***************************************************************************)
(* diff_strings                                                            *)
(***************************************************************************)
\* the while loop of diff_strings from index i (1-based) on
RECURSIVE DiffScan(_, _, _)
DiffScan(diff, i, confusion_log) ==
    IF i > Len(diff) THEN confusion_log
    ELSE IF diff[i].tag = "-"
         THEN IF i + 1 <= Len(diff) /\ diff[i + 1].tag = "+"
              THEN DiffScan(diff, i + 2,
                            Append(confusion_log, <<diff[i].ch, diff[i + 1].ch>>))
              ELSE DiffScan(diff, i + 1, Append(confusion_log, <<diff[i].ch, << >>>>))
    ELSE IF diff[i].tag = "+"
         THEN DiffScan(diff, i + 1, Append(confusion_log, <<<< >>, diff[i].ch>>))
    ELSE DiffScan(diff, i + 1, confusion_log)

\* the loop of diff_strings without the  i += 1  that skips the paired "+"
RECURSIVE DiffScanNoSkip(_, _, _)
DiffScanNoSkip(diff, i, confusion_log) ==
    IF i > Len(diff) THEN confusion_log
    ELSE IF diff[i].tag = "-"
         THEN IF i + 1 <= Len(diff) /\ diff[i + 1].tag = "+"
              THEN DiffScanNoSkip(diff, i + 1,
                                  Append(confusion_log, <<diff[i].ch, diff[i + 1].ch>>))
              ELSE DiffScanNoSkip(diff, i + 1, Append(confusion_log, <<diff[i].ch, << >>>>))
    ELSE IF diff[i].tag = "+"
         THEN DiffScanNoSkip(diff, i + 1, Append(confusion_log, <<<< >>, diff[i].ch>>))
    ELSE DiffScanNoSkip(diff, i + 1, confusion_log)

diff_strings_no_skip(ocr, ref, confusion_log) ==
    DiffScanNoSkip(Ndiff(ocr, ref), 1, confusion_log)

\* diff_strings that starts from an empty log instead of the one passed
diff_strings_own_log(ocr, ref, confusion_log) == DiffScan(Ndiff(ocr, ref), 1, << >>)

\* diff_strings(ocr, ref, confusion_log): the log after the call
diff_strings(ocr, ref, confusion_log) == DiffScan(Ndiff(ocr, ref), 1, confusion_log)

(***************************************************************************)
(* Summary report and confusion table of align_ocr_lines                   *)
(***************************************************************************)
\* sum(scores)
RECURSIVE SumScores(_, _)
SumScores(scores, k) ==
    IF k > Len(scores) THEN FracOfInt(0)
    ELSE FracAdd(scores[k], SumScores(scores, k + 1))

\* the low-confidence test taken as s <= threshold
IsLowConfOrEqual(score, threshold) == ~FracLess(FracOfInt(threshold), score)

\* s < threshold, the test of the low-confidence count
IsLowConf(score, threshold) == FracLess(score, FracOfInt(threshold))

\* sum(1 for s in scores if s < threshold)
LowConfCount(scores, threshold) ==
    Len(SelectSeq(scores, LAMBDA sc : IsLowConf(sc, threshold)))

\* the figures of the summary report
Summarize(res, threshold) ==
    LET scores == [k \in 1..Len(res) |-> res[k].score]
        n == Len(scores)
        low == LowConfCount(scores, threshold)
    IN  [lines_processed |-> Len(res),
         avg_score |-> IF n > 0
                       THEN LET total == SumScores(scores, 1)
                            IN  Frac(total.num, total.den * n)
                       ELSE FracOfInt(0),
         low_conf |-> low,
         low_conf_pct |-> IF n > 0 THEN Frac(low * 100, n) ELSE FracOfInt(0),
         threshold |-> threshold]

\* Counter(confusion_log): the distinct pairs in first-seen order, each with
\* its number of occurrences
CountOf(log, pair) == Cardinality({k \in 1..Len(log) : log[k] = pair})

Counter(log) ==
    LET keys == Dedup(log)
    IN  [k \in 1..Len(keys) |-> [pair |-> keys[k], count |-> CountOf(log, keys[k])]]

\* the insertion that puts a row before the rows of its own count
RECURSIVE InsertBeforeTies(_, _)
InsertBeforeTies(rows, row) ==
    IF rows = << >> THEN <<row>>
    ELSE IF Head(rows).count > row.count
         THEN <<Head(rows)>> \o InsertBeforeTies(Tail(rows), row)
         ELSE <<row>> \o rows

\* the stable insertion of one row into rows sorted by descending count
RECURSIVE InsertByCount(_, _)
InsertByCount(rows, row) ==
    IF rows = << >> THEN <<row>>
    ELSE IF Head(rows).count >= row.count
         THEN <<Head(rows)>> \o InsertByCount(Tail(rows), row)
         ELSE <<row>> \o rows

\* Counter.most_common(): sorted(items, key=count, reverse=True), stable
RECURSIVE SortByCount(_, _, _)
SortByCount(items, k, acc) ==
    IF k > Len(items) THEN acc
    ELSE SortByCount(items, k + 1, InsertByCount(acc, items[k]))

most_common(log) == SortByCount(Counter(log), 1, << >>)

\* the argument of most_common in the "Top 5 Confusions" report
TopN == 5

\* heapq.nlargest(n, items, key=count): the items are decorated with
\* (count, -position) and the n greatest are returned greatest first; taken
\* is the set of positions already returned
RECURSIVE NLargestFrom(_, _, _)
NLargestFrom(n, items, taken) ==
    LET left == (1..Len(items)) \ taken
    IN  IF n = 0 \/ left = {} THEN << >>
        ELSE LET top == CHOOSE i \in left :
                            \A j \in left :
                                \/ items[i].count > items[j].count
                                \/ items[i].count = items[j].count /\ i <= j
             IN  <<items[top]>> \o NLargestFrom(n - 1, items, taken \cup {top})

\* Counter.most_common(n)
most_common_n(log, n) == NLargestFrom(n, Counter(log), {})

(***************************************************************************)
(* Bounds and input sets                                                   *)
(***************************************************************************)
\* a run over several lines: number of OCR lines, characters per line,
\* characters of the reference
MaxLines == 2
MaxRunLineLen == 1
MaxRunRefLen == 2
\* a run over one line: characters of the line and of the reference
MaxLineLen == 3
MaxRefLen == 3
\* build_windows on its own: characters of the reference and window size
MaxBwLen == 5
MaxBwSize == 3
\* diff_strings on its own: characters per string
MaxDiffLen == 3
\* normalize_hebrew on its own: characters of the text
MaxNormLen == 5

\* two Hebrew letters (alef, bet), the space, the newline
RefChars == {1488, 1489, 32, 10}
\* the same without the newline, for the runs over several lines
RunRefChars == {1488, 1489, 32}
\* two Hebrew letters, the space, and a Latin letter the filter removes
LineChars == {1488, 1489, 32, 120}
\* four Hebrew letters (alef, bet, gimel, dalet)
DiffChars == {1488, 1489, 1490, 1491}
\* the two ends of the range (U+0590, U+05FF), their neighbours outside it
\* (U+058F, U+0600), the space, the newline
NormChars == {1424, 1535, 1423, 1536, 32, 10}

\* the value of --threshold: its default and two scores a line can reach
DefaultThreshold == 70
Thresholds == {50, DefaultThreshold, 100}

\* reference_text = f.read()
ReferenceTexts(n) == SeqsUpTo(RefChars, n)
RunReferenceTexts(n) == SeqsUpTo(RunRefChars, n)

\* [line.strip() for line in f if line.strip()]
CliLines(n) == {s \in SeqsUpTo(LineChars, n) : s # << >> /\ Strip(s) = s}

\* a log that already holds the pairs of an earlier line
EarlierLogs == {<< >>, <<<<<<1488>>, << >>>>>>}

(***************************************************************************)
(* State                                                                   *)
(***************************************************************************)
VARIABLES
    pc,              \* where the run is
    reference_text,  \* argument of align_ocr_lines
    ocr_lines,       \* argument of align_ocr_lines
    ref_norm,        \* normalize_hebrew(reference_text)
    line_no,         \* position of the for loop in ocr_lines (1-based)
    norm_line,       \* locals of the last loop iteration
    candidates,
    results,         \* the list of (line, match, score, start_index, final_match)
    confusion_log,
    txt_out,         \* the lines written to alignment_<uid>.txt
    confusion_table, \* the rows written to confusions_<uid>.csv
    summary,         \* the figures of the summary report
    top_confusions,  \* the rows printed under "Top 5 Confusions"
    caller,          \* "cli" (src/align.py) or "pagexml" (src/align-pagexml.py)
    doc,             \* the TextLine elements of the PAGE-XML tree, in document order
    update_log,      \* what update_pagexml_with_aligned_text prints, per result
    bw_text, bw_size, bw_out,   \* one call of build_windows
    df_ocr, df_ref,             \* one call of diff_strings
    df_log0, df_log,            \* its log argument as passed and as left
    nz_text, nz_out, nz_twice,  \* normalize_hebrew called on a text and on its result
    call_pc,                    \* "ready" before that call, "returned" after
    run_no,                     \* 1 in the first call of align_ocr_lines, 2 in a second one
    picked,                     \* 0 if the second call has the lines of the first,
                                \* k if it has its line k alone
    prev_pc, prev_results, prev_table   \* how the first call ended and what it left

runVars == <<pc, reference_text, ocr_lines, ref_norm, line_no, norm_line,
             candidates, results, confusion_log, txt_out, confusion_table, summary,
             top_confusions, caller, doc, update_log>>
callVars == <<bw_text, bw_size, bw_out, df_ocr, df_ref, df_log0, df_log,
              nz_text, nz_out, nz_twice, call_pc>>
againVars == <<run_no, picked, prev_pc, prev_results, prev_table>>
vars == <<runVars, callVars, againVars>>

NoSummary == [lines_processed |-> 0, avg_score |-> FracOfInt(0), low_conf |-> 0,
              low_conf_pct |-> FracOfInt(0), threshold |-> 0]

\* the first call: there is no earlier one
FirstCall ==
    /\ run_no = 1
    /\ picked = 0
    /\ prev_pc = "none"
    /\ prev_results = << >>
    /\ prev_table = << >>

\* no run of align_ocr_lines is modelled
RunIdle ==
    /\ pc = "Idle"
    /\ reference_text = << >>
    /\ ocr_lines = << >>
    /\ ref_norm = << >>
    /\ line_no = 0
    /\ norm_line = << >>
    /\ candidates = << >>
    /\ results = << >>
    /\ confusion_log = << >>
    /\ txt_out = << >>
    /\ confusion_table = << >>
    /\ summary = NoSummary
    /\ top_confusions = << >>
    /\ FirstCall
    /\ caller = "none"
    /\ doc = << >>
    /\ update_log = << >>

\* no single call is modelled
CallIdle ==
    /\ bw_text = << >>
    /\ bw_size = 0
    /\ bw_out = << >>
    /\ df_ocr = << >>
    /\ df_ref = << >>
    /\ df_log0 = << >>
    /\ df_log = << >>
    /\ nz_text = << >>
    /\ nz_out = << >>
    /\ nz_twice = << >>
    /\ call_pc = "idle"

(***************************************************************************)
(* align_ocr_lines (src/align.py), called from the command line            *)
(***************************************************************************)
\* the call: the arguments are bound and nothing has run yet
RunInit(references, lineLists) ==
    /\ pc = "Init"
    /\ reference_text \in references
    /\ ocr_lines \in lineLists
    /\ ref_norm = << >>
    /\ line_no = 0
    /\ norm_line = << >>
    /\ candidates = << >>
    /\ results = << >>
    /\ confusion_log = << >>
    /\ txt_out = << >>
    /\ confusion_table = << >>
    /\ summary = NoSummary
    /\ top_confusions = << >>
    /\ FirstCall
    /\ caller = "cli"
    /\ doc = << >>
    /\ update_log = << >>
    /\ CallIdle

\* a run over up to MaxLines short lines
Init == RunInit(RunReferenceTexts(MaxRunRefLen), SeqsUpTo(CliLines(MaxRunLineLen), MaxLines))

\* a run over one longer line
InitLine == RunInit(ReferenceTexts(MaxRefLen), {<<l>> : l \in CliLines(MaxLineLen)})

\* lines 40-52: normalize the reference, empty results and log, open the CSV
NormalizeReference ==
    /\ pc = "Init"
    /\ ref_norm' = normalize_hebrew(reference_text)
    /\ results' = << >>
    /\ confusion_log' = << >>
    /\ line_no' = 1
    /\ pc' = "Loop"
    /\ UNCHANGED <<reference_text, ocr_lines, norm_line, candidates, txt_out,
                   confusion_table, summary, top_confusions, caller, doc, update_log,
                   callVars, againVars>>

\* lines 54-74: one iteration of the for loop.  extractOne returns None for
\* an empty candidate list and unpacking None raises TypeError, which
\* nothing catches: the call ends there.
AlignLine ==
    /\ pc = "Loop"
    /\ line_no <= Len(ocr_lines)
    /\ LET line == ocr_lines[line_no]
           nl == normalize_hebrew(line)
           cands == Candidates(ref_norm, nl)
           best == extractOne(nl, cands)
       IN  /\ norm_line' = nl
           /\ candidates' = cands
           /\ IF best = NoneResult
              THEN /\ pc' = "Aborted"
                   /\ UNCHANGED <<results, confusion_log, line_no>>
              ELSE /\ results' = Append(results,
                                        [line |-> line, match |-> best.match,
                                         score |-> best.score,
                                         start_index |-> Find(ref_norm, best.match),
                                         final_match |-> best.match])
                   /\ confusion_log' = diff_strings(line, best.match, confusion_log)
                   /\ line_no' = line_no + 1
                   /\ pc' = "Loop"
    /\ UNCHANGED <<reference_text, ocr_lines, ref_norm, txt_out, confusion_table,
                   summary, top_confusions, caller, doc, update_log, callVars, againVars>>

\* lines 79-107: the matched text, the confusion table, the summary report;
\* the function returns, to the command line or to process_pagexml_file
Aggregate ==
    /\ pc = "Loop"
    /\ line_no > Len(ocr_lines)
    /\ \E threshold \in Thresholds :
          summary' = Summarize(results, threshold)
    /\ txt_out' = [k \in 1..Len(results) |-> results[k].final_match]
    /\ confusion_table' = most_common(confusion_log)
    /\ top_confusions' = most_common_n(confusion_log, TopN)
    /\ pc' = IF caller = "pagexml" THEN "Update" ELSE "Done"
    /\ UNCHANGED <<reference_text, ocr_lines, ref_norm, line_no, norm_line,
                   candidates, results, confusion_log, caller, doc, update_log,
                   callVars, againVars>>

\* references and lines whose runs log many different pairs: the references
\* alef bet space gimel dalet, alef bet, gimel; the lines gimel alef gimel,
\* dalet alef gimel, alef dalet x, alef alef bet, x alef, bet
TableReferences == {<<1488, 1489, 32, 1490, 1491>>, <<1488, 1489>>, <<1490>>}
TableLines ==
    {<<1490, 1488, 1490>>, <<1491, 1488, 1490>>, <<1488, 1491, 120>>,
     <<1488, 1488, 1489>>, <<120, 1488>>, <<1489>>}

\* a run over up to MaxLines of these lines
InitTable == RunInit(TableReferences, SeqsUpTo(TableLines, MaxLines))

Next == NormalizeReference \/ AlignLine \/ Aggregate

Spec == Init /\ [][Next]_vars

SpecLine == InitLine /\ [][Next]_vars

SpecTable == InitTable /\ [][Next]_vars

\* references and lines for two calls: the references of the table runs and
\* a one-word reference (alef); the lines of the table runs and a line of
\* three words (alef, bet, gimel)
AgainReferences == TableReferences \cup {<<1488>>}
AgainLines == TableLines \cup {<<1488, 32, 1489, 32, 1490>>}

InitAgain == RunInit(AgainReferences, SeqsUpTo(AgainLines, MaxLines))

\* align_ocr_lines is called a second time with the same reference, on the
\* same lines or on one of them alone; what the first call left is kept
\* aside for comparison.  The new call writes files of its own (a new uid)
\* and binds its results and log in NormalizeReference.
CallAgain ==
    /\ run_no = 1
    /\ pc \in {"Done", "Aborted"}
    /\ \E k \in 0..Len(ocr_lines) :
          /\ picked' = k
          /\ ocr_lines' = IF k = 0 THEN ocr_lines ELSE <<ocr_lines[k]>>
    /\ prev_pc' = pc
    /\ prev_results' = results
    /\ prev_table' = confusion_table
    /\ run_no' = 2
    /\ txt_out' = << >>
    /\ confusion_table' = << >>
    /\ summary' = NoSummary
    /\ top_confusions' = << >>
    /\ pc' = "Init"
    /\ UNCHANGED <<reference_text, ref_norm, line_no, norm_line, candidates, results,
                   confusion_log, caller, doc, update_log, callVars>>

SpecAgain == InitAgain /\ [][Next \/ CallAgain]_vars

(***************************************************************************)
(* process_pagexml_file (src/align-pagexml.py): extract the lines of a     *)
(* PAGE-XML document, align them (align_ocr_lines there is the function of *)
(* src/align.py with a verbose flag), write the matches back               *)
(***************************************************************************)
\* where a TextLine keeps its Unicode element: under its TextEquiv child,
\* directly under the TextLine, or nowhere
Layouts == {"TextEquiv", "Direct", "None"}

\* the text of a Unicode element: none, alef, alef bet, alef and a Latin x
PageTexts == {<< >>, <<1488>>, <<1488, 1489>>, <<1488, 120>>}

\* the reference: empty, alef, alef alef, bet alef, alef alef alef
PageReferences ==
    {<< >>, <<1488>>, <<1488, 1488>>, <<1489, 1488>>, <<1488, 1488, 1488>>}

\* number of TextLine elements of a document
MaxPageLines == 2

TextLines ==
    {[layout |-> l, text |-> t] : l \in Layouts \ {"None"}, t \in PageTexts}
        \cup {[layout |-> "None", text |-> << >>]}

\* the floor of update_pagexml_with_aligned_text: score > 50
ReplaceFloor == 50

InitPage ==
    /\ pc = "Extract"
    /\ reference_text \in PageReferences
    /\ ocr_lines = << >>
    /\ ref_norm = << >>
    /\ line_no = 0
    /\ norm_line = << >>
    /\ candidates = << >>
    /\ results = << >>
    /\ confusion_log = << >>
    /\ txt_out = << >>
    /\ confusion_table = << >>
    /\ summary = NoSummary
    /\ top_confusions = << >>
    /\ FirstCall
    /\ caller = "pagexml"
    /\ doc \in SeqsUpTo(TextLines, MaxPageLines)
    /\ update_log = << >>
    /\ CallIdle

\* lines 108-125: the Unicode element extraction looks for, under TextEquiv
\* if the TextLine has one and directly under the TextLine otherwise; a
\* line is taken only if the element exists and has text
RECURSIVE ExtractFrom(_, _)
ExtractFrom(lines, k) ==
    IF k > Len(lines) THEN << >>
    ELSE (IF lines[k].layout # "None" /\ lines[k].text # << >>
          THEN <<Strip(lines[k].text)>> ELSE << >>)
         \o ExtractFrom(lines, k + 1)

extract_ocr_lines_from_pagexml(lines) == ExtractFrom(lines, 1)

\* lines 295-300: extract; without lines process_pagexml_file returns None
ExtractLines ==
    /\ pc = "Extract"
    /\ ocr_lines' = extract_ocr_lines_from_pagexml(doc)
    /\ pc' = IF ocr_lines' = << >> THEN "NoLines" ELSE "Init"
    /\ UNCHANGED <<reference_text, ref_norm, line_no, norm_line, candidates, results,
                   confusion_log, txt_out, confusion_table, summary, top_confusions,
                   caller, doc, update_log, callVars, againVars>>

\* line 150 with >= for >
ShouldReplaceFrom50(result) ==
    result.line # result.match /\ ~FracLess(result.score, FracOfInt(ReplaceFloor))

\* line 150: original_text != matched_text and score > 50
ShouldReplace(result) ==
    result.line # result.match /\ FracLess(FracOfInt(ReplaceFloor), result.score)

\* lines 142-158: the loop over the TextLine elements from element k on,
\* alignment_idx (0-based) being the next result to use.  The Unicode
\* element is looked for directly under the TextLine only.
RECURSIVE UpdateFrom(_, _, _, _, _)
UpdateFrom(lines, k, alignment_results, alignment_idx, log) ==
    IF k > Len(lines) THEN [doc |-> lines, log |-> log]
    ELSE IF lines[k].layout = "Direct" /\ alignment_idx < Len(alignment_results)
         THEN LET r == alignment_results[alignment_idx + 1]
                  replace == ShouldReplace(r)
              IN  UpdateFrom(IF replace THEN [lines EXCEPT ![k].text = r.match] ELSE lines,
                             k + 1, alignment_results, alignment_idx + 1,
                             Append(log, [line |-> alignment_idx + 1,
                                          action |-> IF replace THEN "Updated" ELSE "Kept",
                                          element |-> k]))
         ELSE UpdateFrom(lines, k + 1, alignment_results, alignment_idx, log)

update_pagexml_with_aligned_text(lines, alignment_results) ==
    UpdateFrom(lines, 1, alignment_results, 0, << >>)

\* lines 311-324: update the tree and save it
UpdatePageXml ==
    /\ pc = "Update"
    /\ LET updated == update_pagexml_with_aligned_text(doc, results)
       IN  /\ doc' = updated.doc
           /\ update_log' = updated.log
    /\ pc' = "Saved"
    /\ UNCHANGED <<reference_text, ocr_lines, ref_norm, line_no, norm_line, candidates,
                   results, confusion_log, txt_out, confusion_table, summary,
                   top_confusions, caller, callVars, againVars>>

NextPage == ExtractLines \/ NormalizeReference \/ AlignLine \/ Aggregate \/ UpdatePageXml

SpecPage == InitPage /\ [][NextPage]_vars

(***************************************************************************)
(* build_windows and diff_strings, each called once on its own             *)
(***************************************************************************)
InitBuildWindows ==
    /\ RunIdle
    /\ bw_text \in ReferenceTexts(MaxBwLen)
    /\ bw_size \in 1..MaxBwSize
    /\ bw_out = << >>
    /\ df_ocr = << >>
    /\ df_ref = << >>
    /\ df_log0 = << >>
    /\ df_log = << >>
    /\ nz_text = << >>
    /\ nz_out = << >>
    /\ nz_twice = << >>
    /\ call_pc = "ready"

CallBuildWindows ==
    /\ call_pc = "ready"
    /\ bw_out' = build_windows(bw_text, bw_size)
    /\ call_pc' = "returned"
    /\ UNCHANGED <<runVars, againVars, bw_text, bw_size, df_ocr, df_ref, df_log0, df_log,
                   nz_text, nz_out, nz_twice>>

SpecBuildWindows == InitBuildWindows /\ [][CallBuildWindows]_vars

InitDiffStrings ==
    /\ RunIdle
    /\ bw_text = << >>
    /\ bw_size = 0
    /\ bw_out = << >>
    /\ df_ocr \in SeqsUpTo(DiffChars, MaxDiffLen)
    /\ df_ref \in SeqsUpTo(DiffChars, MaxDiffLen)
    /\ df_log0 \in EarlierLogs
    /\ df_log = df_log0
    /\ nz_text = << >>
    /\ nz_out = << >>
    /\ nz_twice = << >>
    /\ call_pc = "ready"

CallDiffStrings ==
    /\ call_pc = "ready"
    /\ df_log' = diff_strings(df_ocr, df_ref, df_log)
    /\ call_pc' = "returned"
    /\ UNCHANGED <<runVars, againVars, bw_text, bw_size, bw_out, df_ocr, df_ref, df_log0,
                   nz_text, nz_out, nz_twice>>

SpecDiffStrings == InitDiffStrings /\ [][CallDiffStrings]_vars

InitNormalize ==
    /\ RunIdle
    /\ bw_text = << >>
    /\ bw_size = 0
    /\ bw_out = << >>
    /\ df_ocr = << >>
    /\ df_ref = << >>
    /\ df_log0 = << >>
    /\ df_log = << >>
    /\ nz_text \in SeqsUpTo(NormChars, MaxNormLen)
    /\ nz_out = << >>
    /\ nz_twice = << >>
    /\ call_pc = "ready"

\* normalize_hebrew(text)
CallNormalize ==
    /\ call_pc = "ready"
    /\ nz_out' = normalize_hebrew(nz_text)
    /\ call_pc' = "returned"
    /\ UNCHANGED <<runVars, againVars, bw_text, bw_size, bw_out, df_ocr, df_ref, df_log0, df_log,
                   nz_text, nz_twice>>

\* normalize_hebrew called on what the first call returned
CallNormalizeAgain ==
    /\ call_pc = "returned"
    /\ nz_twice' = normalize_hebrew(nz_out)
    /\ call_pc' = "returned twice"
    /\ UNCHANGED <<runVars, againVars, bw_text, bw_size, bw_out, df_ocr, df_ref, df_log0, df_log,
                   nz_text, nz_out>>

SpecNormalize == InitNormalize /\ [][CallNormalize \/ CallNormalizeAgain]_vars

(***************************************************************************)
(* Properties                                                              *)
(***************************************************************************)
\* the result of the line the loop handled last
LastResult == results[Len(results)]
LineHandled == pc \in {"Loop", "Done"} /\ results # << >>
\* the loop body ran at least once (and may have raised)
LoopBodyRan == LineHandled \/ pc = "Aborted"

\* C1: a line whose candidate list is empty does not end the run: it gets
\* the sentinel result (matched text "", score 0), the results before it stay
\* as they were and the lines after it are processed.  The source raises
\* on such a line instead (TypeError, line 66), so the run is Aborted.
C1_EmptyCandidatesGiveSentinel ==
    /\ pc # "Aborted"
    /\ \A k \in 1..Len(results) :
          Candidates(ref_norm, normalize_hebrew(ocr_lines[k])) = << >>
              => results[k].match = << >> /\ results[k].score = FracOfInt(0)

\* C2: the match is a candidate of greatest score, and of the candidates
\* with that score the one of least index: every candidate before it scores
\* strictly less, none scores more.
C2_BestMatchIsFirstMaximum ==
    LineHandled =>
        \E k \in 1..Len(candidates) :
            /\ candidates[k] = LastResult.match
            /\ LastResult.score = FuzzRatio(norm_line, candidates[k])
            /\ \A m \in 1..Len(candidates) :
                  ~FracLess(LastResult.score, FuzzRatio(norm_line, candidates[m]))
            /\ \A m \in 1..(k - 1) :
                  FracLess(FuzzRatio(norm_line, candidates[m]), LastResult.score)

\* C2 witness: two different candidates share the greatest score and the
\* earlier one was taken
C2_Witness ==
    /\ LineHandled
    /\ \E k, m \in 1..Len(candidates) :
          /\ k < m
          /\ candidates[k] = LastResult.match
          /\ FuzzRatio(norm_line, candidates[m]) = LastResult.score
          /\ FracLess(FracOfInt(0), LastResult.score)

\* the windows of the sizes base_size-1, base_size, base_size+1 that are
\* positive, in increasing size order, before duplicates are removed
WindowsOfSizes(base_size) ==
    (IF base_size - 1 > 0 THEN build_windows(ref_norm, base_size - 1) ELSE << >>)
    \o (IF base_size > 0 THEN build_windows(ref_norm, base_size) ELSE << >>)
    \o build_windows(ref_norm, base_size + 1)

FirstIndexIn(seq, x) == CHOOSE i \in 1..Len(seq) : seq[i] = x /\ \A j \in 1..(i - 1) : seq[j] # x

\* C3: the candidates are the windows of the positive sizes among
\* base_size-1, base_size, base_size+1 in increasing size order, each
\* distinct string once, ordered by its first occurrence.
C3_CandidatesAreStableDedupOfWindows ==
    LoopBodyRan =>
        LET all == WindowsOfSizes(Len(Split(norm_line)))
        IN  /\ \A i, j \in 1..Len(candidates) : candidates[i] = candidates[j] => i = j
            /\ {candidates[i] : i \in 1..Len(candidates)} = {all[i] : i \in 1..Len(all)}
            /\ \A i, j \in 1..Len(candidates) :
                  i < j => FirstIndexIn(all, candidates[i]) < FirstIndexIn(all, candidates[j])

\* C3 witness: a two-token line, windows of sizes 1 and 2 exist, and a
\* repeated window was dropped
C3_Witness ==
    /\ LineHandled
    /\ Len(Split(norm_line)) = 2
    /\ build_windows(ref_norm, 1) # << >>
    /\ build_windows(ref_norm, 2) # << >>
    /\ Len(candidates) < Len(WindowsOfSizes(2))

\* C5: every score lies in [0, 100], and a normalized line equal to one of
\* its candidates gets score 100 and that candidate as its match.
C5_ScoreBoundsAndExactMatch ==
    /\ \A k \in 1..Len(results) :
          /\ ~FracLess(results[k].score, FracOfInt(0))
          /\ ~FracLess(FracOfInt(100), results[k].score)
    /\ LineHandled /\ (\E k \in 1..Len(candidates) : candidates[k] = norm_line)
          => LastResult.score = FracOfInt(100) /\ LastResult.match = norm_line

\* C5 witness: the normalized line is a candidate, not the first one, and
\* the raw line differs from it
C5_Witness ==
    /\ LineHandled
    /\ \E k \in 2..Len(candidates) : candidates[k] = norm_line
    /\ LastResult.line # norm_line
    /\ LastResult.score = FracOfInt(100)

\* C8: reference_offset is the offset of the first occurrence of the match
\* in the normalized reference: not negative, the match is there, and not
\* earlier.  The source joins the words of a window by single spaces while
\* the normalized reference keeps its own whitespace, so a window across a
\* newline or a double space is not found and the offset is -1.
C8_OffsetIsFirstOccurrence ==
    \A k \in 1..Len(results) :
        LET off == results[k].start_index
            m == results[k].match
        IN  /\ off >= 0
            /\ Slice(ref_norm, off, off + Len(m)) = m
            /\ \A e \in 0..(off - 1) : Slice(ref_norm, e, e + Len(m)) # m

\* the scores of the results over the common denominator DenProduct
RECURSIVE DenProduct(_, _)
DenProduct(res, k) == IF k > Len(res) THEN 1 ELSE res[k].score.den * DenProduct(res, k + 1)

RECURSIVE ScaledSum(_, _, _)
ScaledSum(res, k, den) ==
    IF k > Len(res) THEN 0
    ELSE res[k].score.num * (den \div res[k].score.den) + ScaledSum(res, k + 1, den)

\* C9: at the end of a run the average is the mean of the scores (0 without
\* lines), the low-confidence count is the number of scores strictly below
\* the threshold, the percentage is count / lines * 100 (0 without lines);
\* an empty list of lines raises nothing and gives no results and zeros.
C9_SummaryFigures ==
    /\ ocr_lines = << >> => pc # "Aborted"
    /\ pc = "Done" =>
          LET n == Len(results)
              den == DenProduct(results, 1)
              low == Cardinality({k \in 1..n :
                         results[k].score.num < summary.threshold * results[k].score.den})
          IN  /\ summary.lines_processed = n
              /\ summary.low_conf = low
              /\ n = 0 => /\ summary.avg_score = FracOfInt(0)
                          /\ summary.low_conf_pct = FracOfInt(0)
                          /\ results = << >>
              /\ n > 0 => /\ summary.avg_score.num * n * den
                               = ScaledSum(results, 1, den) * summary.avg_score.den
                          /\ summary.low_conf_pct.num * n
                               = low * 100 * summary.low_conf_pct.den
              /\ ocr_lines = << >> => n = 0 /\ low = 0

\* C9 witness: two lines, one scoring exactly the threshold (not counted)
\* and one scoring less (counted)
C9_Witness ==
    /\ pc = "Done"
    /\ Len(results) = 2
    /\ \E k \in 1..2 : results[k].score = FracOfInt(summary.threshold)
    /\ summary.low_conf = 1
    /\ summary.low_conf_pct = FracOfInt(50)

\* a second call has ended
SecondCallEnded == run_no = 2 /\ pc \in {"Done", "Aborted"}

\* the same lines, the same reference: the second call ends as the first
\* did, with the same results (line, match, score, offset) and the same
\* confusion table
SameRunSameOutput ==
    SecondCallEnded /\ picked = 0 =>
        /\ pc = prev_pc
        /\ results = prev_results
        /\ confusion_table = prev_table

\* a line of a call that returned has, called alone, the result it had
LineAloneSameResult ==
    SecondCallEnded /\ picked > 0 /\ prev_pc = "Done" =>
        /\ pc = "Done"
        /\ results = <<prev_results[picked]>>

\* C13: two calls on the same lines, reference and configuration give the
\* same results and the same confusion table, and a line called alone gets
\* the result it has among other lines: the one recorded for it if the
\* first call recorded one, none if it did not.  A call that a line without
\* candidates ended (see C1) recorded nothing for the lines after that
\* line, which called alone do get a result.
C13_SameInputsSameOutputsLinesIndependent ==
    /\ SameRunSameOutput
    /\ LineAloneSameResult
    /\ SecondCallEnded /\ picked > 0 /\ prev_pc = "Aborted" =>
          results = IF picked <= Len(prev_results) THEN <<prev_results[picked]>>
                    ELSE << >>

\* C14: the pairs of a line are those of diff_strings on the normalized line
\* and its match, so the source character of a pair is never a character
\* the filter of normalize_hebrew removes.  The source passes the raw line
\* to diff_strings (line 70), and the characters the filter removed from it
\* come back as deleted or substituted characters.
C14_PairsFromNormalizedLine ==
    LineHandled /\ Len(ocr_lines) = 1 =>
        /\ confusion_log = diff_strings(norm_line, LastResult.match, << >>)
        /\ \A k \in 1..Len(confusion_log) :
              confusion_log[k][1] # << >> => IsValidChar(confusion_log[k][1][1])

\* the TextLine elements with a Unicode element that has text, in document
\* order: element SourceElements(lines)[k] is where OCR line k comes from
SourceElements(lines) ==
    LET RECURSIVE From(_)
        From(k) ==
            IF k > Len(lines) THEN << >>
            ELSE (IF lines[k].layout # "None" /\ lines[k].text # << >>
                  THEN <<k>> ELSE << >>) \o From(k + 1)
    IN  From(1)

\* C15: the rewriting step handles every result, and result k on the
\* TextLine element OCR line k was extracted from, never on another one.  The
\* source looks for the Unicode element directly under the TextLine only
\* and counts every such element, with or without text: a line under
\* TextEquiv gets no result and a line without text takes the result of the
\* next line.
C15_ResultAppliedToItsOwnLine ==
    [][pc = "Update" =>
          LET from == SourceElements(doc)
          IN  /\ Len(from) = Len(results)
              /\ Len(update_log') = Len(results)
              /\ \A e \in 1..Len(update_log') :
                    /\ update_log'[e].line = e
                    /\ update_log'[e].element = from[e]]_vars

\* the positions of the log that hold the pair
PositionsOf(log, pair) == {k \in 1..Len(log) : log[k] = pair}
FirstAppended(log, pair) ==
    CHOOSE k \in PositionsOf(log, pair) : \A m \in PositionsOf(log, pair) : k <= m

\* C11: the confusion table has one row per distinct (source, target) pair
\* of the log, the absent character being a value of its own, with the
\* number of log entries equal to that pair; the rows are in descending
\* count, rows of equal count in the order their pairs were first appended;
\* the top-N report is the first N rows of the table.
C11_TableOrderAndTopN ==
    pc = "Done" =>
        LET n == Len(confusion_table)
        IN  /\ {confusion_table[r].pair : r \in 1..n}
                   = {confusion_log[k] : k \in 1..Len(confusion_log)}
            /\ \A r, q \in 1..n :
                  confusion_table[r].pair = confusion_table[q].pair => r = q
            /\ \A r \in 1..n :
                  confusion_table[r].count
                      = Cardinality(PositionsOf(confusion_log, confusion_table[r].pair))
            /\ \A r, q \in 1..n :
                  r < q =>
                      \/ confusion_table[r].count > confusion_table[q].count
                      \/ /\ confusion_table[r].count = confusion_table[q].count
                         /\ FirstAppended(confusion_log, confusion_table[r].pair)
                                < FirstAppended(confusion_log, confusion_table[q].pair)
            /\ top_confusions = SubSeq(confusion_table, 1, Min(TopN, n))

\* C11 witness: a table of more than N rows, so the report is cut; two rows
\* of equal count; a row that was first appended after the pair of the row
\* below it; a deletion and an insertion of the same character as two rows
C11_Witness ==
    /\ pc = "Done"
    /\ Len(confusion_table) > TopN
    /\ Len(top_confusions) = TopN
    /\ \E r \in 1..(Len(confusion_table) - 1) :
          /\ confusion_table[r].count = confusion_table[r + 1].count
          /\ confusion_table[r].count > 1
    /\ \E r, q \in 1..Len(confusion_table) :
          /\ r < q
          /\ FirstAppended(confusion_log, confusion_table[q].pair)
                < FirstAppended(confusion_log, confusion_table[r].pair)
    /\ \E r, q \in 1..Len(confusion_table), c \in {1488, 1489, 1490, 1491} :
          /\ confusion_table[r].pair = <<<<c>>, << >>>>
          /\ confusion_table[q].pair = <<<< >>, <<c>>>>

\* C10: a run is never Aborted by a line, and at Done there is one result
\* per input line in input order, the matched-text file listing the match
\* of result k on line k.  The run is Aborted by a line without candidates
\* (see C1).
C10_DoneWithOneResultPerLine ==
    /\ pc # "Aborted"
    /\ pc = "Done" =>
          /\ Len(results) = Len(ocr_lines)
          /\ Len(txt_out) = Len(ocr_lines)
          /\ \A k \in 1..Len(ocr_lines) :
                results[k].line = ocr_lines[k] /\ txt_out[k] = results[k].match

\* the offset in a window of its word j (1-based): the lengths of the words
\* before it and one separator after each
RECURSIVE WordOffset(_, _)
WordOffset(ws, j) == IF j <= 1 THEN 0 ELSE WordOffset(ws, j - 1) + Len(ws[j - 1]) + 1

\* s is the words ws joined by single spaces
IsSpaceJoin(s, ws) ==
    /\ Len(s) = WordOffset(ws, Len(ws)) + Len(ws[Len(ws)])
    /\ \A j \in 1..Len(ws) :
          /\ \A t \in 1..Len(ws[j]) : s[WordOffset(ws, j) + t] = ws[j][t]
          /\ j > 1 => s[WordOffset(ws, j)] = 32

\* C4: for a reference of n words and a window size w >= 1, build_windows
\* returns max(0, n - w + 1) windows, window i being words i..i+w-1 joined
\* by single spaces, in increasing i; none when w > n.
C4_WindowCountAndContent ==
    call_pc = "returned" /\ bw_size >= 1 =>
        LET words == Split(bw_text)
            n == Len(words)
        IN  /\ Len(bw_out) = Max(0, n - bw_size + 1)
            /\ bw_size > n => bw_out = << >>
            /\ \A i \in 1..Len(bw_out) :
                  IsSpaceJoin(bw_out[i], [j \in 1..bw_size |-> words[i - 1 + j]])

\* C4 witness: two windows of two words each from a three-word reference
\* whose words are not all separated by one space
C4_Witness ==
    /\ call_pc = "returned"
    /\ bw_size = 2
    /\ Len(bw_out) = 2
    /\ \E i \in 1..Len(bw_text) : bw_text[i] = 10

\* a character of the script range U+0590..U+05FF; a whitespace character
InScript(c) == 1424 <= c /\ c <= 1535
IsWhite(c) == c \in WhitespaceChars

\* C12: normalize_hebrew returns the characters of its input that are in
\* the script range or whitespace, in their order, from the first script
\* character to the last one (leading and trailing whitespace is trimmed,
\* whitespace between them is kept as it is); a text without script
\* characters, the empty one included, gives the empty string; normalizing
\* the result again gives the result.
C12_NormalizeFiltersTrimsIdempotent ==
    /\ call_pc \in {"returned", "returned twice"} =>
          LET script == {i \in 1..Len(nz_text) : InScript(nz_text[i])}
          IN  /\ script = {} => nz_out = << >>
              /\ script # {} =>
                    LET first == CHOOSE i \in script : \A j \in script : i <= j
                        last == CHOOSE i \in script : \A j \in script : j <= i
                    IN  nz_out = SelectSeq(SubSeq(nz_text, first, last),
                                           LAMBDA c : InScript(c) \/ IsWhite(c))
              /\ nz_text = << >> => nz_out = << >>
    /\ call_pc = "returned twice" => nz_twice = nz_out

\* C12 witness: a text with a character outside the valid set between two
\* whitespace characters: it is removed and the two whitespace characters
\* stay, side by side; the second call returned the same string
C12_Witness ==
    /\ call_pc = "returned twice"
    /\ nz_twice = nz_out
    /\ \E i \in 2..(Len(nz_text) - 1) :
          /\ ~InScript(nz_text[i]) /\ ~IsWhite(nz_text[i])
          /\ IsWhite(nz_text[i - 1]) /\ IsWhite(nz_text[i + 1])
    /\ \E i \in 1..(Len(nz_out) - 1) : IsWhite(nz_out[i]) /\ IsWhite(nz_out[i + 1])
    /\ Len(nz_out) = Len(nz_text) - 1

\* what the scan of an edit script emits at position i: a delete followed by
\* an insert gives a substitution, any other delete a deletion, an insert
\* not preceded by a delete an insertion, anything else nothing
EmittedAt(diff, i) ==
    IF diff[i].tag = "-"
    THEN IF i < Len(diff) /\ diff[i + 1].tag = "+"
         THEN <<<<diff[i].ch, diff[i + 1].ch>>>>
         ELSE <<<<diff[i].ch, << >>>>>>
    ELSE IF diff[i].tag = "+" /\ ~(i > 1 /\ diff[i - 1].tag = "-")
         THEN <<<<<< >>, diff[i].ch>>>>
    ELSE << >>

\* the pairs the call appended to the log
Appended == SubSeq(df_log, Len(df_log0) + 1, Len(df_log))

\* a and b differ in exactly one position
OneSubstitution(a, b) ==
    /\ Len(a) = Len(b)
    /\ Cardinality({i \in 1..Len(a) : a[i] # b[i]}) = 1

SubstitutedAt(a, b) == CHOOSE i \in 1..Len(a) : a[i] # b[i]

Occurs(c, s) == \E i \in 1..Len(s) : s[i] = c

\* the scan rule, and the insertion and deletion cases of C6
C6_ScanRule ==
    LET diff == Ndiff(df_ocr, df_ref)
    IN  /\ Appended = Concat([i \in 1..Len(diff) |-> EmittedAt(diff, i)])
        /\ Len(df_ref) = Len(df_ocr) + 1 /\ SubSeq(df_ref, 1, Len(df_ocr)) = df_ocr
              => Appended = <<<<<< >>, <<df_ref[Len(df_ref)]>>>>>>
        /\ Len(df_ocr) = Len(df_ref) + 1 /\ SubSeq(df_ocr, 1, Len(df_ref)) = df_ref
              => Appended = <<<<<<df_ocr[Len(df_ocr)]>>, << >>>>>>

\* C6 as stated: the scan rule, and any two strings that differ in one
\* substituted character give exactly one substitution pair
C6_AnySubstitutionGivesOnePair ==
    call_pc = "returned" =>
        /\ C6_ScanRule
        /\ OneSubstitution(df_ocr, df_ref) =>
              LET i == SubstitutedAt(df_ocr, df_ref)
              IN  Appended = <<<<<<df_ocr[i]>>, <<df_ref[i]>>>>>>

\* C6 amended: the same, for a substitution whose replaced character does
\* not occur in b and whose replacing character does not occur in a
C6_FreshSubstitutionGivesOnePair ==
    call_pc = "returned" =>
        /\ C6_ScanRule
        /\ OneSubstitution(df_ocr, df_ref) =>
              LET i == SubstitutedAt(df_ocr, df_ref)
              IN  ~Occurs(df_ocr[i], df_ref) /\ ~Occurs(df_ref[i], df_ocr)
                      => Appended = <<<<<<df_ocr[i]>>, <<df_ref[i]>>>>>>

\* C6 witness: alef bet gimel against alef bet dalet gave the one pair
\* (gimel, dalet)
C6_Witness ==
    /\ call_pc = "returned"
    /\ df_ocr = <<1488, 1489, 1490>>
    /\ df_ref = <<1488, 1489, 1491>>
    /\ Appended = <<<<<<1490>>, <<1491>>>>>>

\* the number of entries of the edit script with the tag
TagCount(diff, tag) == Cardinality({i \in 1..Len(diff) : diff[i].tag = tag})

\* C16: the pairs appended by diff_strings count every operation of the
\* edit script once: as many pairs with a source character as delete
\* operations (the characters of a that are not kept), as many pairs with a
\* target character as insert operations (the characters of b that are not
\* kept); no pair has both sides absent; the entries the log held before the
\* call are still there, in place, before the appended ones.
C16_PairsCountEditOperationsAppendOnly ==
    call_pc = "returned" =>
        LET diff == Ndiff(df_ocr, df_ref)
            kept == TagCount(diff, " ")
            withSource == {k \in 1..Len(Appended) : Appended[k][1] # << >>}
            withTarget == {k \in 1..Len(Appended) : Appended[k][2] # << >>}
        IN  /\ Cardinality(withSource) = TagCount(diff, "-")
            /\ Cardinality(withTarget) = TagCount(diff, "+")
            /\ TagCount(diff, "-") = Len(df_ocr) - kept
            /\ TagCount(diff, "+") = Len(df_ref) - kept
            /\ \A k \in 1..Len(Appended) : Appended[k] # <<<< >>, << >>>>
            /\ Len(df_log) >= Len(df_log0)
            /\ SubSeq(df_log, 1, Len(df_log0)) = df_log0

\* C16 witness: a call on a log that held a pair already appended a
\* substitution pair and a pair with one side absent, for an edit script
\* with a kept character
C16_Witness ==
    /\ call_pc = "returned"
    /\ df_log0 # << >>
    /\ TagCount(Ndiff(df_ocr, df_ref), " ") > 0
    /\ \E k \in 1..Len(Appended) : Appended[k][1] # << >> /\ Appended[k][2] # << >>
    /\ \E k \in 1..Len(Appended) : Appended[k][1] = << >> \/ Appended[k][2] = << >>

====
